---------------------------- MODULE Spec2Model ----------------------------
(***************************************************************************)
(* A model of funnel4 (src/funnel4.py): one build of a static website by   *)
(* Website.generate, i.e. generate_static_pages followed by                *)
(* generate_blog_feeds (discover_blog_posts, pagination, feed rendering).  *)
(*                                                                         *)
(* A Python string is modelled as the sequence of its lexical tokens: the  *)
(* separator "/", a name, a leading underscore "_", an extension such as   *)
(* ".rst".  str.replace, str.startswith, str.lstrip, os.path.basename,     *)
(* os.path.dirname and os.path.splitext work on these sequences position   *)
(* by position, as Python's work on characters.                            *)
(***************************************************************************)
EXTENDS Integers, Sequences, FiniteSets, TLC

(***************************************************************************)
(* Bounds of the model.                                                    *)
(***************************************************************************)
MaxFiles == 3

MaxPostsPerPage == 2

(***************************************************************************)
(* Python string functions on token sequences.                             *)
(***************************************************************************)
StartsWith(s, p) == Len(s) >= Len(p) /\ SubSeq(s, 1, Len(p)) = p

EndsWith(s, p) == Len(s) >= Len(p) /\ SubSeq(s, Len(s) - Len(p) + 1, Len(s)) = p

MatchAt(s, i, p) == i + Len(p) - 1 <= Len(s) /\ SubSeq(s, i, i + Len(p) - 1) = p

RECURSIVE ReplaceFrom(_, _, _, _)
ReplaceFrom(s, old, new, i) ==
  IF i > Len(s) THEN (IF old = <<>> THEN new ELSE <<>>)
  ELSE IF old = <<>> THEN new \o <<s[i]>> \o ReplaceFrom(s, old, new, i + 1)
  ELSE IF MatchAt(s, i, old) THEN new \o ReplaceFrom(s, old, new, i + Len(old))
  ELSE <<s[i]>> \o ReplaceFrom(s, old, new, i + 1)

\* str.replace(old, new): every non-overlapping occurrence, leftmost first.
Replace(s, old, new) == ReplaceFrom(s, old, new, 1)

RECURSIVE LStrip(_, _)
LStrip(s, ch) == IF s # <<>> /\ s[1] = ch THEN LStrip(Tail(s), ch) ELSE s

RECURSIVE RStrip(_, _)
RStrip(s, ch) ==
  IF s # <<>> /\ s[Len(s)] = ch THEN RStrip(SubSeq(s, 1, Len(s) - 1), ch) ELSE s

\* Position of the last "/" of s, 0 when there is none.
LastSep(s) ==
  LET seps == {i \in 1..Len(s) : s[i] = "/"}
  IN IF seps = {} THEN 0 ELSE CHOOSE i \in seps : \A j \in seps : j <= i

Basename(s) == SubSeq(s, LastSep(s) + 1, Len(s))

\* os.path.dirname: the head up to the last "/", its trailing slashes
\* stripped unless it consists of slashes only.
Dirname(s) ==
  LET head == SubSeq(s, 1, LastSep(s))
  IN IF RStrip(head, "/") = <<>> THEN head ELSE RStrip(head, "/")

\* The tokens that start with a dot.
Extensions == {".rst", ".html", ".xml", ".css"}

\* os.path.splitext(s)[1]: the last dotted part of the basename, a leading
\* dot of the basename not counting.
SplitExt(s) ==
  LET base == Basename(s)
  IN IF Len(base) >= 2 /\ base[Len(base)] \in Extensions
     THEN <<base[Len(base)]>> ELSE <<>>

\* os.path.join of a path and one relative part.
Join(a, b) == IF a = <<>> \/ a[Len(a)] = "/" THEN a \o b ELSE a \o <<"/">> \o b

(***************************************************************************)
(* The configuration that Website.__init__ builds.                         *)
(***************************************************************************)
basedir == <<"/", "site">>

src_path == Join(basedir, <<"src">>)

out_path == Join(basedir, <<"out">>)

post_template == <<"templates", "/", "_", "blog_post", ".html">>

blog_index_template == <<"templates", "/", "_", "blog_index", ".html">>

blog_feed_template == <<"templates", "/", "_", "blog_feed", ".xml">>

\* The searchpath of the jinja2 FileSystemLoader.
searchpath == Join(basedir, <<"src">>)


(***************************************************************************)
(* The source trees of the model.  A file is its absolute path; Source     *)
(* gives what docutils' publish_parts returns for it: the html body and    *)
(* the meta block as the start tags HTMLParser reports.                    *)
(***************************************************************************)
InSrc(rel) == Join(src_path, rel)

hello_rst == InSrc(<<"blog", "/", "2024", "/", "hello", ".rst">>)

index_rst == InSrc(<<"blog", "/", "2024", "/", "index", ".rst">>)

second_rst == InSrc(<<"blog", "/", "second", ".rst">>)

blog_index_html == InSrc(<<"blog", "/", "index", ".html">>)

notitle_rst == InSrc(<<"blog", "/", "notitle", ".rst">>)

nodate_rst == InSrc(<<"blog", "/", "2024", "/", "nodate", ".rst">>)

dup_rst == InSrc(<<"blog", "/", "dup", ".rst">>)

about_rst == InSrc(<<"about", ".rst">>)

static_partial == InSrc(<<"static", "/", "_", "x", ".html">>)

\* A jinja2 partial kept beside the posts: no meta block.
blog_partial == InSrc(<<"blog", "/", "_", "nav", ".html">>)

templates_page == InSrc(<<"templates", "/", "sub", "/", "page", ".rst">>)

ContentFiles ==
  {hello_rst, index_rst, second_rst, blog_index_html, notitle_rst, nodate_rst,
   dup_rst, about_rst, static_partial, blog_partial, templates_page}

Meta(name, content) == [tag |-> "meta", attrs |-> [name |-> name, content |-> content]]

Source(f) ==
  CASE f = hello_rst ->
         [html_body |-> "hello",
          meta |-> <<Meta("created_at", "2024-01-05"), Meta("title", "Hello")>>]
    [] f = index_rst ->
         [html_body |-> "index",
          meta |-> <<Meta("title", "Year"), Meta("created_at", "2024-01-03")>>]
    [] f = second_rst ->
         [html_body |-> "second",
          meta |-> <<Meta("created_at", "2024-01-05"), Meta("title", "Second"),
                     Meta("draft", "true")>>]
    [] f = blog_index_html ->
         [html_body |-> "blog",
          meta |-> <<[tag |-> "link", attrs |-> [name |-> "title", content |-> "x"]],
                     Meta("created_at", "2024-01-01"),
                     [tag |-> "meta", attrs |-> [name |-> "title"]],
                     Meta("title", "Blog"), Meta("draft", "")>>]
    [] f = notitle_rst ->
         [html_body |-> "notitle", meta |-> <<Meta("created_at", "2024-01-03")>>]
    [] f = nodate_rst ->
         [html_body |-> "nodate", meta |-> <<Meta("author", "me")>>]
    [] f = dup_rst ->
         [html_body |-> "dup",
          meta |-> <<Meta("created_at", "2024-01-01"), Meta("title", "A"),
                     Meta("title", "B")>>]
    [] f = about_rst ->
         [html_body |-> "about", meta |-> <<Meta("title", "About")>>]
    [] OTHER -> [html_body |-> "", meta |-> <<>>]

\* Python's order of the created_at strings of the model, ascending.
StringOrder == <<"2024-01-01", "2024-01-03", "2024-01-05">>

StrRank(s) == CHOOSE i \in 1..Len(StringOrder) : StringOrder[i] = s

\* a >= b on strings.
StrGeq(a, b) == StrRank(a) >= StrRank(b)

(***************************************************************************)
(* MetaParser: handle_starttag folded over the start tags of parts["meta"]. *)
(* The result is the metadata dict, or the ValueError of a repeated name.   *)
(***************************************************************************)
EmptyDict == [k \in {} |-> ""]

RECURSIVE MetaParserFeed(_, _, _)
MetaParserFeed(tags, i, metadata) ==
  IF i > Len(tags) THEN [raised |-> FALSE, metadata |-> metadata]
  ELSE LET tag == tags[i].tag
           attrs == tags[i].attrs
       IN IF tag # "meta" THEN MetaParserFeed(tags, i + 1, metadata)
          ELSE IF "name" \notin DOMAIN attrs \/ "content" \notin DOMAIN attrs
          THEN MetaParserFeed(tags, i + 1, metadata)
          ELSE IF attrs.name \in DOMAIN metadata
          THEN [raised |-> TRUE, name |-> attrs.name]
          ELSE MetaParserFeed(tags, i + 1, (attrs.name :> attrs.content) @@ metadata)

(***************************************************************************)
(* The path functions of Website.                                          *)
(***************************************************************************)
_relative_filename(full_filename) ==
  LStrip(Replace(full_filename, src_path, <<>>), "/")

_href(full_filename) ==
  IF Basename(full_filename) = <<"index", ".html">>
  THEN Dirname(Replace(full_filename, src_path, <<"/">>)) \o <<"/">>
  ELSE Replace(Replace(full_filename, src_path, <<>>),
               SplitExt(full_filename), <<".html">>)

_out_filename(full_filename, convert_extension) ==
  LET out_filename == Replace(full_filename, src_path, out_path)
  IN IF convert_extension
     THEN Replace(out_filename, SplitExt(full_filename), <<".html">>)
     ELSE out_filename

(***************************************************************************)
(* The builds of the model: which templates the source tree holds and      *)
(* which feeds config["blog"]["feeds"] lists.                              *)
(***************************************************************************)
Feed(template, path) == [template |-> template, path |-> path]

default_feeds ==
  <<Feed(blog_index_template, <<"blog", "/", "index">>),
    Feed(blog_feed_template, <<"blog", "/", "feed">>)>>

\* Two feeds that write the same files.
shared_feeds ==
  <<Feed(blog_index_template, <<"blog", "/", "index">>),
    Feed(post_template, <<"blog", "/", "index">>)>>

AllTemplates == {post_template, blog_index_template, blog_feed_template}

Setups ==
  {[templates |-> AllTemplates, feeds |-> default_feeds],
   [templates |-> AllTemplates, feeds |-> shared_feeds],
   [templates |-> {post_template, blog_index_template}, feeds |-> default_feeds],
   [templates |-> {}, feeds |-> default_feeds],
   [templates |-> {}, feeds |-> <<>>]}

VARIABLES
  files,                 \* the regular files under src_path
  config,                \* self.config["blog"]
  pc,                    \* where generate() is
  visited,               \* files generate_static_pages has gone through
  handled,               \* what generate_static_pages did with each of them
  out,                   \* the files under out_path and their content
  rst_j2context_cache,   \* self._rst_j2context_cache
  converts,              \* per file, the number of publish_parts calls
  walked,                \* files discover_blog_posts has gone through
  blog_posts,            \* the dict discover_blog_posts builds
  all_posts,             \* the posts of "__all__" that are no drafts
  all_posts_paginated,   \* the pages of generate_blog_feeds
  page_i,                \* index of the page being rendered
  feed_j,                \* index of the feed being rendered
  rendered,              \* the feed files written, with their context
  error                  \* the exception that ended the build, if any

vars ==
  <<files, config, pc, visited, handled, out, rst_j2context_cache, converts,
    walked, blog_posts, all_posts, all_posts_paginated, page_i, feed_j, rendered,
    error>>

NoError == [kind |-> "none"]

ALL == <<"__all__">>

(***************************************************************************)
(* os.walk, top down: the files of a directory, then each subdirectory     *)
(* in full, in the order the file system lists them.                       *)
(***************************************************************************)
Under(f, dir) == StartsWith(f, dir \o <<"/">>)

AncestorDirs(f) == {SubSeq(f, 1, k - 1) : k \in {i \in 2..Len(f) : f[i] = "/"}}

WalkNext(tree, done) ==
  {f \in tree \ done :
     /\ \A g \in tree \ done :
          ~(Under(f, Dirname(g)) /\ Dirname(g) # Dirname(f))
     /\ \A d \in UNION {AncestorDirs(g) : g \in tree} :
          ((\E g \in done : Under(g, d)) /\ (\E g \in tree \ done : Under(g, d)))
            => Under(f, d)}

BlogFiles == {f \in files : Under(f, Join(src_path, <<"blog">>))}

(***************************************************************************)
(* jinja2: a template resolves when the loader's searchpath holds it; its  *)
(* expansion is a function of the template and the context.                *)
(***************************************************************************)
TemplateFound(template_name) == Join(searchpath, template_name) \in files

TemplateRender(template_name, context) ==
  [kind |-> "render", template |-> template_name, context |-> context]

(***************************************************************************)
(* Website._rst_j2context.                                                 *)
(***************************************************************************)
Context(full_filename, metadata) ==
  [k \in DOMAIN metadata \cup {"html_body", "metadata", "href"} |->
     CASE k = "html_body" -> Source(full_filename).html_body
       [] k = "metadata" -> metadata
       [] k = "href" -> _href(full_filename)
       [] OTHER -> metadata[k]]

_rst_j2context(full_filename) ==
  IF full_filename \in DOMAIN rst_j2context_cache
  THEN [raised |-> FALSE, computed |-> FALSE,
        context |-> rst_j2context_cache[full_filename]]
  ELSE LET parser == MetaParserFeed(Source(full_filename).meta, 1, EmptyDict)
       IN IF parser.raised
          THEN [raised |-> TRUE, computed |-> TRUE,
                error |-> [kind |-> "ValueError", name |-> parser.name]]
          ELSE [raised |-> FALSE, computed |-> TRUE,
                context |-> Context(full_filename, parser.metadata)]

\* The cache after a call of _rst_j2context: the code never stores into it.
CacheAfter(full_filename, result) == rst_j2context_cache

Converted(full_filename, result) ==
  IF result.computed
  THEN [converts EXCEPT ![full_filename] = @ + 1]
  ELSE converts

(***************************************************************************)
(* The state after Website.__init__, for every source tree and             *)
(* configuration of the model.                                             *)
(***************************************************************************)
Init ==
  /\ \E setup \in Setups, content \in SUBSET ContentFiles, n \in 1..MaxPostsPerPage :
       /\ Cardinality(content) <= MaxFiles
       /\ files = {Join(searchpath, t) : t \in setup.templates} \cup content
       /\ config = [post_template |-> post_template, posts_per_page |-> n,
                    feeds |-> setup.feeds]
  /\ pc = "static"
  /\ visited = {}
  /\ handled = [f \in files |-> "none"]
  /\ out = [p \in {} |-> NoError]
  /\ rst_j2context_cache = [f \in {} |-> EmptyDict]
  /\ converts = [f \in files |-> 0]
  /\ walked = {}
  /\ blog_posts = [k \in {} |-> <<>>]
  /\ all_posts = <<>>
  /\ all_posts_paginated = <<>>
  /\ page_i = 0
  /\ feed_j = 0
  /\ rendered = {}
  /\ error = NoError

Write(o, path, data) ==
  [p \in DOMAIN o \cup {path} |-> IF p = path THEN data ELSE o[p]]

Raise(e) == pc' = "failed" /\ error' = [kind |-> e.kind, stage |-> pc, detail |-> e]

(***************************************************************************)
(* generate_static_pages.                                                  *)
(***************************************************************************)
\* A variant that looks at the underscore before the static/ prefix.
ClassifyUnderscoreFirst(full_filename) ==
  LET file == Basename(full_filename)
      relative_filename == _relative_filename(full_filename)
  IN IF StartsWith(relative_filename, <<"templates", "/">>) THEN "Partial"
     ELSE IF StartsWith(file, <<"_">>) /\ EndsWith(file, <<".html">>) THEN "Partial"
     ELSE IF StartsWith(relative_filename, <<"static", "/">>) THEN "StaticAsset"
     ELSE IF StartsWith(relative_filename, <<"blog", "/">>) THEN "BlogDocument"
     ELSE "Document"

Classify(full_filename) ==
  LET file == Basename(full_filename)
      relative_filename == _relative_filename(full_filename)
  IN IF StartsWith(relative_filename, <<"templates", "/">>) THEN "Partial"
     ELSE IF StartsWith(relative_filename, <<"static", "/">>) THEN "StaticAsset"
     ELSE IF StartsWith(file, <<"_">>) /\ EndsWith(file, <<".html">>) THEN "Partial"
     ELSE IF StartsWith(relative_filename, <<"blog", "/">>) THEN "BlogDocument"
     ELSE "Document"

copy_static_file(full_filename) ==
  /\ out' = Write(out, _out_filename(full_filename, FALSE),
                  [kind |-> "copy", source |-> full_filename])
  /\ visited' = visited \cup {full_filename}
  /\ UNCHANGED <<pc, error, rst_j2context_cache, converts>>

render_file(full_filename, template_name) ==
  LET rst == SplitExt(full_filename) = <<".rst">>
      result == _rst_j2context(full_filename)
      context == IF rst THEN result.context ELSE EmptyDict
  IN /\ rst_j2context_cache' =
          IF rst THEN CacheAfter(full_filename, result) ELSE rst_j2context_cache
     /\ converts' = IF rst THEN Converted(full_filename, result) ELSE converts
     /\ IF rst /\ result.raised
        THEN Raise(result.error) /\ UNCHANGED <<out, visited>>
        ELSE IF ~TemplateFound(template_name)
        THEN /\ Raise([kind |-> "TemplateNotFound", template |-> template_name])
             /\ UNCHANGED <<out, visited>>
        ELSE /\ out' = Write(out, _out_filename(full_filename, TRUE),
                             TemplateRender(template_name, context))
             /\ visited' = visited \cup {full_filename}
             /\ UNCHANGED <<pc, error>>

StaticStep ==
  /\ pc = "static"
  /\ \E full_filename \in WalkNext(files, visited) :
       LET class == Classify(full_filename)
       IN /\ handled' = [handled EXCEPT ![full_filename] = class]
          /\ CASE class = "Partial" ->
                    /\ visited' = visited \cup {full_filename}
                    /\ UNCHANGED <<pc, error, out, rst_j2context_cache, converts>>
               [] class = "StaticAsset" -> copy_static_file(full_filename)
               [] class = "BlogDocument" ->
                    render_file(full_filename, config.post_template)
               [] class = "Document" ->
                    render_file(full_filename, _relative_filename(full_filename))
  /\ UNCHANGED <<files, config, walked, blog_posts, all_posts,
                 all_posts_paginated, page_i, feed_j, rendered>>

\* generate: generate_static_pages has returned, generate_blog_feeds calls
\* discover_blog_posts.
\* A variant that does not wait for the walk to end.
StaticFinishedEarly == TRUE

StaticFinished == visited = files

StaticDone ==
  /\ pc = "static"
  /\ StaticFinished
  /\ pc' = "discover"
  /\ blog_posts' = (ALL :> <<>>)
  /\ UNCHANGED <<files, config, visited, handled, out, rst_j2context_cache,
                 converts, walked, all_posts, all_posts_paginated, page_i, feed_j,
                 rendered, error>>

(***************************************************************************)
(* discover_blog_posts.                                                    *)
(***************************************************************************)
\* A variant that does not require the title.
RequiredKeysShort == <<"created_at">>

RequiredKeys == <<"created_at", "title">>

\* The required keys the context lacks, in the order they are checked.
MissingKeys(context) ==
  SelectSeq(RequiredKeys, LAMBDA required_metadata_key :
                            required_metadata_key \notin DOMAIN context)

AppendPost(posts, key, context) ==
  IF key \in DOMAIN posts
  THEN [posts EXCEPT ![key] = Append(@, context)]
  ELSE posts @@ (key :> <<context>>)

DiscoverStep ==
  /\ pc = "discover"
  /\ \E full_filename \in WalkNext(BlogFiles, walked) :
       LET result == _rst_j2context(full_filename)
       IN /\ rst_j2context_cache' = CacheAfter(full_filename, result)
          /\ converts' = Converted(full_filename, result)
          /\ IF result.raised
             THEN Raise(result.error) /\ UNCHANGED <<walked, blog_posts>>
             ELSE IF MissingKeys(result.context) # <<>>
             THEN /\ Raise([kind |-> "KeyError", file |-> full_filename,
                            key |-> Head(MissingKeys(result.context))])
                  /\ UNCHANGED <<walked, blog_posts>>
             ELSE /\ blog_posts' =
                       AppendPost(AppendPost(blog_posts, ALL, result.context),
                                  Dirname(full_filename), result.context)
                  /\ walked' = walked \cup {full_filename}
                  /\ UNCHANGED <<pc, error>>
  /\ UNCHANGED <<files, config, visited, handled, out, all_posts,
                 all_posts_paginated, page_i, feed_j, rendered>>

\* list.sort(key=created_at, reverse=True): stable, so a post goes behind
\* the posts of the same created_at that came before it.
RECURSIVE SortDescFrom(_, _, _)
SortDescFrom(posts, i, sorted) ==
  IF i > Len(posts) THEN sorted
  ELSE LET ahead == Cardinality({k \in 1..Len(sorted) :
                       StrGeq(sorted[k].created_at, posts[i].created_at)})
       IN SortDescFrom(posts, i + 1,
            SubSeq(sorted, 1, ahead) \o <<posts[i]>>
              \o SubSeq(sorted, ahead + 1, Len(sorted)))

\* A variant that leaves the lists as they were discovered.
SortDescUnsorted(posts) == posts

SortDesc(posts) == SortDescFrom(posts, 1, <<>>)

\* The walk is over: every list is sorted and the dict returned.
DiscoverReturn ==
  /\ pc = "discover"
  /\ walked = BlogFiles
  /\ blog_posts' = [key \in DOMAIN blog_posts |-> SortDesc(blog_posts[key])]
  /\ pc' = "discovered"
  /\ UNCHANGED <<files, config, visited, handled, out, rst_j2context_cache,
                 converts, walked, all_posts, all_posts_paginated, page_i, feed_j,
                 rendered, error>>

(***************************************************************************)
(* generate_blog_feeds.                                                    *)
(***************************************************************************)
IsDraft(post) == "draft" \in DOMAIN post /\ post["draft"] # ""

\* A variant that keeps the drafts.
FilterDraftsNone(posts) == posts

FilterDrafts(posts) == SelectSeq(posts, LAMBDA post : ~IsDraft(post))

Min(a, b) == IF a <= b THEN a ELSE b

\* A variant without the empty page of an empty list.
PaginatedNoEmpty(posts, n) ==
  [k \in 1..((Len(posts) + n - 1) \div n) |->
     SubSeq(posts, (k - 1) * n + 1, Min(k * n, Len(posts)))]

\* A variant whose range stops one post early.
PaginatedShort(posts, n) ==
  LET chunks == [k \in 1..((Len(posts) - 1 + n - 1) \div n) |->
                   SubSeq(posts, (k - 1) * n + 1, Min(k * n, Len(posts)))]
  IN IF Len(chunks) = 0 THEN << <<>> >> ELSE chunks

Paginated(posts, n) ==
  LET chunks == [k \in 1..((Len(posts) + n - 1) \div n) |->
                   SubSeq(posts, (k - 1) * n + 1, Min(k * n, Len(posts)))]
  IN IF Len(chunks) = 0 THEN << <<>> >> ELSE chunks

Paginate ==
  /\ pc = "discovered"
  /\ all_posts' = FilterDrafts(blog_posts[ALL])
  /\ all_posts_paginated' = Paginated(all_posts', config.posts_per_page)
  /\ blog_posts' = [key \in DOMAIN blog_posts \ {ALL} |-> blog_posts[key]]
  /\ page_i' = 1
  /\ feed_j' = 1
  /\ pc' = "feeds"
  /\ UNCHANGED <<files, config, visited, handled, out, rst_j2context_cache,
                 converts, walked, rendered, error>>

FeedFile(feed, name) ==
  Join(Join(out_path, feed.path), <<name>> \o SplitExt(feed.template))

\* Whether index{ext} is written with this page.
\* A variant that writes index{ext} with every page.
WritesIndexAlways(page_num) == TRUE

WritesIndex(page_num) == page_num = 1

FeedStep ==
  /\ pc = "feeds"
  /\ page_i <= Len(all_posts_paginated)
  /\ feed_j <= Len(config.feeds)
  /\ LET page_num == page_i
         context == [page_num |-> page_num,
                     num_pages |-> Len(all_posts_paginated),
                     posts |-> all_posts_paginated[page_i],
                     category |-> "__all__"]
         feed == config.feeds[feed_j]
         out_filename == FeedFile(feed, ToString(page_num))
         index_filename == FeedFile(feed, "index")
         data == TemplateRender(feed.template, context)
     IN IF ~TemplateFound(feed.template)
        THEN /\ Raise([kind |-> "TemplateNotFound", template |-> feed.template])
             /\ UNCHANGED <<out, rendered, page_i, feed_j>>
        ELSE /\ out' = IF WritesIndex(page_num)
                       THEN Write(Write(out, out_filename, data), index_filename, data)
                       ELSE Write(out, out_filename, data)
             /\ rendered' = rendered
                  \cup {[feed |-> feed_j, file |-> out_filename, context |-> context]}
                  \cup (IF WritesIndex(page_num)
                        THEN {[feed |-> feed_j, file |-> index_filename,
                               context |-> context]}
                        ELSE {})
             /\ IF feed_j = Len(config.feeds)
                THEN page_i' = page_i + 1 /\ feed_j' = 1
                ELSE page_i' = page_i /\ feed_j' = feed_j + 1
             /\ UNCHANGED <<pc, error>>
  /\ UNCHANGED <<files, config, visited, handled, rst_j2context_cache, converts,
                 walked, blog_posts, all_posts, all_posts_paginated>>

\* Both loops are over: generate returns.
FeedsDone ==
  /\ pc = "feeds"
  /\ page_i > Len(all_posts_paginated) \/ Len(config.feeds) = 0
  /\ pc' = "done"
  /\ UNCHANGED <<files, config, visited, handled, out, rst_j2context_cache,
                 converts, walked, blog_posts, all_posts, all_posts_paginated,
                 page_i, feed_j, rendered, error>>

Next ==
  \/ StaticStep
  \/ StaticDone
  \/ DiscoverStep
  \/ DiscoverReturn
  \/ Paginate
  \/ FeedStep
  \/ FeedsDone

Spec == Init /\ [][Next]_vars

(***************************************************************************)
(* What the properties below speak of.                                     *)
(***************************************************************************)
\* Whether the meta block of f parses without a repeated name.
Parses(f) == ~MetaParserFeed(Source(f).meta, 1, EmptyDict).raised

\* The document record of f.
Record(f) == Context(f, MetaParserFeed(Source(f).meta, 1, EmptyDict).metadata)

\* A post whose metadata has a truthy value under the draft key.
DraftPost(post) == "draft" \in DOMAIN post.metadata /\ post.metadata["draft"] # ""

Positions(posts, post) == {i \in 1..Len(posts) : posts[i] = post}

Descending(posts) ==
  \A i, j \in 1..Len(posts) :
    i < j => StrGeq(posts[i].created_at, posts[j].created_at)

RECURSIVE Flatten(_)
Flatten(pages) == IF pages = <<>> THEN <<>> ELSE Head(pages) \o Flatten(Tail(pages))

\* The path of f below the source root, the root's prefix cut off.
BelowRoot(f) == SubSeq(f, Len(src_path) + 2, Len(f))

FeedWritten == \E p \in DOMAIN out : out[p].kind = "render" /\ "page_num" \in DOMAIN out[p].context

(***************************************************************************)
(* C1: within one build the read and convert work of _rst_j2context is     *)
(* done at most once per source path; a second call for the same path      *)
(* is answered from the cache.                                             *)
(***************************************************************************)
C1_ConvertedAtMostOnce == \A f \in files : converts[f] <= 1

(***************************************************************************)
(* C6: the href of a document is, for the index of a directory, the        *)
(* directory below the source root with a closing slash, and otherwise     *)
(* the path below the source root with its extension swapped to .html.     *)
(***************************************************************************)
ClaimedHref(f) ==
  LET below == <<"/">> \o BelowRoot(f)
  IN IF Basename(f)[1] = "index" /\ Len(Basename(f)) = 2
     THEN SubSeq(below, 1, LastSep(below))
     ELSE SubSeq(below, 1, Len(below) - 1) \o <<".html">>

C6_Href ==
  \A f \in files : (converts[f] > 0 /\ Parses(f)) => _href(f) = ClaimedHref(f)

(***************************************************************************)
(* C7: generate_static_pages gives every file exactly one handling class,  *)
(* by the precedence templates/, static/, underscore partial, blog/,       *)
(* other: a Partial yields no output, a StaticAsset is copied, a           *)
(* BlogDocument is rendered with post_template and a Document with its     *)
(* own relative path as the template.                                      *)
(***************************************************************************)
ClaimedClass(f) ==
  LET below == BelowRoot(f)
      top == IF Len(below) >= 2 /\ below[2] = "/" THEN below[1] ELSE ""
      name == Basename(f)
  IN CASE top = "templates" -> "Partial"
       [] top = "static" -> "StaticAsset"
       [] name[1] = "_" /\ name[Len(name)] = ".html" -> "Partial"
       [] top = "blog" -> "BlogDocument"
       [] OTHER -> "Document"

C7_Classification ==
  \A f \in files :
    /\ handled[f] # "none" => handled[f] = ClaimedClass(f)
    /\ f \in visited =>
         /\ handled[f] \in {"Partial", "StaticAsset", "BlogDocument", "Document"}
         /\ handled[f] = "Partial" =>
              /\ _out_filename(f, TRUE) \notin DOMAIN out
              /\ _out_filename(f, FALSE) \notin DOMAIN out
         /\ handled[f] = "StaticAsset" =>
              /\ _out_filename(f, FALSE) \in DOMAIN out
              /\ out[_out_filename(f, FALSE)] = [kind |-> "copy", source |-> f]
         /\ handled[f] = "BlogDocument" =>
              /\ _out_filename(f, TRUE) \in DOMAIN out
              /\ out[_out_filename(f, TRUE)].template = post_template
         /\ handled[f] = "Document" =>
              /\ _out_filename(f, TRUE) \in DOMAIN out
              /\ out[_out_filename(f, TRUE)].template = BelowRoot(f)

C7_Witness ==
  /\ static_partial \in visited
  /\ handled[static_partial] = "StaticAsset"
  /\ templates_page \in visited
  /\ handled[templates_page] = "Partial"
  /\ blog_partial \in visited
  /\ handled[blog_partial] = "Partial"

(***************************************************************************)
(* C10: the collection discover_blog_posts returns has every list sorted   *)
(* by created_at descending, __all__ holds the record of every blog file   *)
(* exactly once, and the other lists partition __all__ by the parent       *)
(* directory of the file.                                                  *)
(***************************************************************************)
C10_Collection ==
  pc = "discovered" =>
    /\ DOMAIN blog_posts = {ALL} \cup {Dirname(f) : f \in BlogFiles}
    /\ \A key \in DOMAIN blog_posts : Descending(blog_posts[key])
    /\ Len(blog_posts[ALL]) = Cardinality(BlogFiles)
    /\ \A f \in BlogFiles : Cardinality(Positions(blog_posts[ALL], Record(f))) = 1
    /\ \A key \in DOMAIN blog_posts \ {ALL} :
         LET members == {f \in BlogFiles : Dirname(f) = key}
         IN /\ Len(blog_posts[key]) = Cardinality(members)
            /\ \A f \in BlogFiles :
                 Cardinality(Positions(blog_posts[key], Record(f))) =
                   IF f \in members THEN 1 ELSE 0

C10_Witness ==
  /\ pc = "discovered"
  /\ Len(blog_posts[ALL]) >= 3
  /\ Cardinality(DOMAIN blog_posts) >= 3
  /\ \E i \in 1..(Len(blog_posts[ALL]) - 1) :
       blog_posts[ALL][i].created_at # blog_posts[ALL][i + 1].created_at

(***************************************************************************)
(* C2: with N posts that are no drafts and page size p, there are          *)
(* ceil(N/p) feed pages, one empty page when N = 0; they are numbered      *)
(* 1..num_pages with the same num_pages in every context; every page but   *)
(* the last has p posts; every post that is no draft is in exactly one     *)
(* page; the pages in order make up the filtered list, which is            *)
(* descending by created_at.                                               *)
(***************************************************************************)
NumberedFile(r) == r.file = FeedFile(config.feeds[r.feed], ToString(r.context.page_num))

C2_Pagination ==
  pc \in {"feeds", "done"} =>
    LET N == Len(all_posts)
        p == config.posts_per_page
        pages == all_posts_paginated
    IN /\ Len(pages) = IF N = 0 THEN 1 ELSE (N + p - 1) \div p
       /\ \A k \in 1..(Len(pages) - 1) : Len(pages[k]) = p
       /\ Len(pages[Len(pages)]) <= p
       /\ N > 0 => Len(pages[Len(pages)]) >= 1
       /\ Flatten(pages) = all_posts
       /\ Descending(all_posts)
       /\ \A f \in BlogFiles :
            Cardinality({<<k, i>> \in (1..Len(pages)) \X (1..p) :
                           i <= Len(pages[k]) /\ pages[k][i] = Record(f)}) =
              IF DraftPost(Record(f)) THEN 0 ELSE 1
       /\ \A r \in rendered :
            /\ r.context.page_num \in 1..Len(pages)
            /\ r.context.num_pages = Len(pages)
            /\ r.context.posts = pages[r.context.page_num]
       /\ pc = "done" =>
            \A j \in 1..Len(config.feeds), k \in 1..Len(pages) :
              \E r \in rendered :
                r.feed = j /\ r.context.page_num = k /\ NumberedFile(r)

C2_Witness ==
  /\ pc = "done"
  /\ Len(all_posts) = 3
  /\ config.posts_per_page = 2
  /\ Len(all_posts_paginated) = 2
  /\ Cardinality(rendered) >= 4

(***************************************************************************)
(* C3: for every feed the file index{ext} holds what 1{ext} holds when     *)
(* generate_blog_feeds is over, and index{ext} is written with page 1      *)
(* only, also when feeds share an output path.                             *)
(***************************************************************************)
C3_IndexIsPageOne ==
  /\ \A j \in 1..Len(config.feeds) :
       LET one == FeedFile(config.feeds[j], "1")
           index == FeedFile(config.feeds[j], "index")
       IN /\ one \in DOMAIN out <=> index \in DOMAIN out
          /\ one \in DOMAIN out => out[index] = out[one]
          /\ pc = "done" => one \in DOMAIN out
  /\ \A r \in rendered :
       r.file = FeedFile(config.feeds[r.feed], "index") => r.context.page_num = 1

C3_Witness ==
  /\ pc = "done"
  /\ config.feeds = shared_feeds
  /\ Len(all_posts_paginated) >= 2
  /\ out[FeedFile(config.feeds[1], "index")].template = post_template

(***************************************************************************)
(* C4: a post with a truthy draft value is in no page of any feed, but it  *)
(* is in the __all__ list that discover_blog_posts returns.                *)
(***************************************************************************)
C4_Drafts ==
  /\ \A r \in rendered :
       \A i \in 1..Len(r.context.posts) : ~DraftPost(r.context.posts[i])
  /\ \A page \in {all_posts_paginated[k] : k \in 1..Len(all_posts_paginated)} :
       \A i \in 1..Len(page) : ~DraftPost(page[i])
  /\ pc = "discovered" =>
       \A f \in BlogFiles :
         DraftPost(Record(f)) => Positions(blog_posts[ALL], Record(f)) # {}

C4_Witness ==
  /\ pc = "done"
  /\ second_rst \in walked
  /\ \E r \in rendered : Len(r.context.posts) >= 1

(***************************************************************************)
(* C5: when the record of a blog file lacks created_at or title,           *)
(* discover_blog_posts ends with an error that names such a file and the   *)
(* key it lacks, returns no collection, and no feed file is written.       *)
(***************************************************************************)
Lacking(f) ==
  Parses(f) /\ ("created_at" \notin DOMAIN Record(f) \/ "title" \notin DOMAIN Record(f))

C5_MissingMetadata ==
  LET lacking == {f \in BlogFiles : Lacking(f)}
  IN /\ lacking # {} =>
          /\ pc \notin {"discovered", "feeds", "done"}
          /\ lacking \cap walked = {}
          /\ rendered = {}
          /\ ~FeedWritten
          /\ all_posts_paginated = <<>>
          /\ (pc = "failed" /\ error.stage = "discover") =>
               /\ error.kind = "KeyError"
               /\ error.detail.file \in lacking
               /\ error.detail.key \notin DOMAIN Record(error.detail.file)
               /\ error.detail.key = "title" =>
                    "created_at" \in DOMAIN Record(error.detail.file)
     /\ error.kind = "KeyError" => error.detail.file \in lacking

C5_Witness ==
  /\ pc = "failed"
  /\ error.kind = "KeyError"
  /\ error.detail.file = notitle_rst
  /\ error.detail.key = "title"
  /\ second_rst \in walked
  /\ DOMAIN out # {}

(***************************************************************************)
(* C8: the stages run in the order static pages, aggregation, feeds: no     *)
(* blog file is read for aggregation before the static pages are through,  *)
(* no feed file is written before aggregation is through, and after a      *)
(* fatal error no later stage runs and what is written stays as it is.     *)
(***************************************************************************)
C8_Order ==
  /\ (pc \in {"discover", "discovered", "feeds", "done"}
        \/ (pc = "failed" /\ error.stage # "static")) => visited = files
  /\ (walked # {} \/ \E f \in files : converts[f] > 1) => visited = files
  /\ (rendered # {} \/ FeedWritten \/ pc \in {"feeds", "done"}
        \/ (pc = "failed" /\ error.stage = "feeds")) =>
       /\ visited = files
       /\ walked = BlogFiles
  /\ pc = "failed" <=> error.kind # "none"
  /\ (pc = "failed" /\ error.stage = "static") =>
       /\ walked = {}
       /\ DOMAIN blog_posts = {}
       /\ \A f \in files : converts[f] <= 1
  /\ (pc = "failed" /\ error.stage \in {"static", "discover"}) =>
       /\ rendered = {}
       /\ ~FeedWritten
       /\ all_posts_paginated = <<>>

C8_Kept ==
  /\ pc = "failed" => vars' = vars
  /\ pc' = "failed" => out' = out
  /\ \A p \in DOMAIN out :
       p \in DOMAIN out' /\ (out'[p] # out[p] => pc' # "failed")

C8_Sequencing == []C8_Order /\ [][C8_Kept]_vars

C8_Witness ==
  /\ pc = "failed"
  /\ error.stage = "feeds"
  /\ rendered # {}
  /\ \E f \in visited : handled[f] = "BlogDocument"

(***************************************************************************)
(* C9: for an empty source tree the walker yields no file and the build    *)
(* ends without error and with no file written under the output root.      *)
(***************************************************************************)
C9_EmptyTreeSucceeds ==
  files = {} => (error.kind = "none" /\ DOMAIN out = {})

(***************************************************************************)
(* C9 as amended: for an empty source tree the walker yields no file,      *)
(* aggregation returns an empty __all__ list and no file is written under  *)
(* the output root; the feed stage still makes one empty page, so the      *)
(* build ends without error only when no feed is configured, and with a    *)
(* feed configured it ends with the template of the first feed not found.  *)
(***************************************************************************)
C9_EmptyTree ==
  files = {} =>
    /\ visited = {} /\ walked = {}
    /\ DOMAIN out = {} /\ rendered = {}
    /\ pc \in {"feeds", "done"} => all_posts_paginated = << <<>> >>
    /\ pc = "done" => config.feeds = <<>>
    /\ pc = "failed" =>
         /\ config.feeds # <<>>
         /\ error.kind = "TemplateNotFound"
         /\ error.stage = "feeds"
         /\ error.detail.template = config.feeds[1].template
         /\ page_i = 1 /\ feed_j = 1
    /\ (pc = "feeds" /\ config.feeds # <<>>) => page_i = 1 /\ feed_j = 1

C9_Witness == files = {} /\ pc = "failed" /\ all_posts_paginated = << <<>> >>

=============================================================================
